---- MODULE Spec2Model ----
(***************************************************************************)
(* Model of the upsert engine of visionf1-pipeline (src/mongodb_utils.py): *)
(* prepare_documents and upsert_to_mongo, run by up to two processes       *)
(* against one MongoDB collection.  The collection, its unique index and   *)
(* the reachability of the server are the shared state; every run keeps    *)
(* its own batch, its position in upsert_to_mongo and the counters of the  *)
(* bulk write result.                                                      *)
(***************************************************************************)
EXTENDS Integers, Sequences, FiniteSets, TLC

\* ------------------------------------------------------------------ bounds
MaxBatch == 2          \* longest batch handed to upsert_to_mongo
MaxTime == 2           \* datetime.now() takes the values 1..MaxTime

Runs == {"r1", "r2"}   \* two synchronization processes
Keys == {1, 2}         \* identity values
Times == 1..MaxTime

\* The field that upsert_to_mongo receives as unique_key.
unique_key == "id"

\* Data fields of a record besides the identity field: two payloads that
\* differ in their field set and in the value of the field they share.
Payloads == { [a |-> 1], [a |-> 2, b |-> 1] }

\* f with field k set to v (dict assignment d[k] = v).
WithField(f, k, v) ==
    [x \in DOMAIN f \cup {k} |-> IF x = k THEN v ELSE f[x]]

\* f without the fields of S.
Without(f, S) == [x \in DOMAIN f \ S |-> f[x]]

\* Records an entity script can hand over: a payload with an identity value,
\* or a record that lacks the identity field.
NoKeyItem == [a |-> 1]
Items == { WithField(p, unique_key, k) : p \in Payloads, k \in Keys } \cup {NoKeyItem}

RECURSIVE SeqsUpTo(_, _)
SeqsUpTo(S, n) ==
    IF n = 0 THEN { <<>> }
    ELSE LET shorter == SeqsUpTo(S, n - 1)
         IN  shorter \cup { Append(s, x) : s \in { t \in shorter : Len(t) = n - 1 }, x \in S }

Batches == SeqsUpTo(Items, MaxBatch)

VARIABLES
    coll,       \* the collection: a set of stored documents, each with its _id
    index,      \* TRUE iff the unique index on unique_key exists on the collection
    reachable,  \* TRUE iff the MongoDB server answers
    pc,         \* pc[r]: position of run r in upsert_to_mongo
    docs,       \* docs[r]: the batch of run r, as prepare_documents returned it
    todo,       \* todo[r]: indexes of the operations of the bulk write not yet executed
    cur,        \* cur[r]: index of the upsert that found no match and is about to insert, or 0
    rep,        \* rep[r]: counters of the bulk write result of run r
    outcome,    \* outcome[r]: how run r ended ("" while it runs)
    seq,        \* TRUE iff r2 was started after r1 had ended
    snapshot    \* snapshot[r]: the collection as run r left it when it ended

vars == <<coll, index, reachable, pc, docs, todo, cur, rep, outcome, seq, snapshot>>

\* State of one call of get_most_recent_event (src/events.py, src/race_pace.py).
VARIABLES
    ryear,      \* current_year
    rnow,       \* today
    rseen,      \* what fastf1.get_event_schedule answered, one entry per year tried
    rpc,        \* "idle", "loop", "returned" or "raised"
    rres        \* the value returned: the event, its index label and the year

resolverVars == <<ryear, rnow, rseen, rpc, rres>>

\* State of the ranking step of process_race_pace_data (src/race_pace.py).
VARIABLES
    rkmeas,     \* all_race_pace: the measurements, in the order they were appended
    rkpos,      \* the race_pace_position column
    rkpc        \* "idle", "ready", "done" or "raised"

rankVars == <<rkmeas, rkpos, rkpc>>

\* State of one run of an entity script's main() (src/drivers.py,
\* src/upcoming_gp.py) up to its call of upsert_to_mongo, which run r1 models.
VARIABLES
    script,     \* the script that runs: "drivers" or "upcoming_gp"
    suri,       \* TRUE iff MONGODB_URI is set
    spc,        \* "idle", "fetch", "process", "upsert", "called" or "raised"
    scalls,     \* calls made to the upstream providers (Ergast, FastF1) so far
    sraces,     \* races_raw: what fetch_races returned (upcoming_gp)
    srecs       \* the records the process_* function returned

scriptVars == <<script, suri, spc, scalls, sraces, srecs>>

\* The variables upsert_to_mongo does not touch.
nonUpsertVars == <<resolverVars, rankVars, scriptVars>>

allVars == <<vars, nonUpsertVars>>

ZeroRep == [matched |-> 0, modified |-> 0, upserted |-> 0, errors |-> 0]

\* ---------------------------------------------------------- prepare_documents
prepare_documents(items, now) ==
    [i \in 1..Len(items) |-> WithField(items[i], "_updated_at", now)]

\* ------------------------------------------------------------ store semantics
\* filter_q = {unique_key: doc[unique_key]}
Matches(d, doc) == unique_key \in DOMAIN d /\ d[unique_key] = doc[unique_key]

\* A $set that also writes the creation timestamp ("_created_at" moved from
\* $setOnInsert into $set).
SetDocAndCreated(old, doc) ==
    [x \in DOMAIN old \cup DOMAIN doc \cup {"_created_at"} |->
        IF x = "_created_at" THEN doc["_updated_at"]
        ELSE IF x \in DOMAIN doc THEN doc[x] ELSE old[x]]

\* {"$set": doc} applied to the stored document old: the fields of doc are
\* written, every other field of old stays.
SetDoc(old, doc) ==
    [x \in DOMAIN old \cup DOMAIN doc |-> IF x \in DOMAIN doc THEN doc[x] ELSE old[x]]

\* The document an upsert inserts when nothing matches: the filter's equality
\* field, $set, and $setOnInsert {"_created_at": doc["_updated_at"]}.
InsertDoc(doc, id) ==
    WithField(WithField(doc, "_created_at", doc["_updated_at"]), "_id", id)

NextId == Cardinality(coll) + 1

\* A unique index can be built only over a collection without duplicates.
NoDuplicates(c) ==
    \A d1 \in c, d2 \in c : d1[unique_key] = d2[unique_key] => d1 = d2

\* No call of get_most_recent_event is under way.
NoResult == [idx |-> 0, year |-> 0]
ResolverIdle ==
    /\ ryear = 0 /\ rnow = 0 /\ rseen = <<>> /\ rpc = "idle" /\ rres = NoResult

\* The collection is empty and no run has started.
UpsertInit ==
    /\ coll = {}
    /\ index = FALSE
    /\ reachable = TRUE
    /\ pc = [r \in Runs |-> "idle"]
    /\ docs = [r \in Runs |-> <<>>]
    /\ todo = [r \in Runs |-> {}]
    /\ cur = [r \in Runs |-> 0]
    /\ rep = [r \in Runs |-> ZeroRep]
    /\ outcome = [r \in Runs |-> ""]
    /\ seq = FALSE
    /\ snapshot = [r \in Runs |-> {}]

\* No ranking is under way.
RankIdle == rkmeas = <<>> /\ rkpos = <<>> /\ rkpc = "idle"

\* No script is running: upsert_to_mongo is called with any batch.
ScriptIdle ==
    /\ script = "" /\ suri = TRUE /\ spc = "idle"
    /\ scalls = 0 /\ sraces = <<>> /\ srecs = <<>>

Init == UpsertInit /\ ResolverIdle /\ RankIdle /\ ScriptIdle

\* Run r ends with outcome o (no step that ends a run writes the collection).
End(r, o) ==
    /\ pc' = [pc EXCEPT ![r] = "done"]
    /\ outcome' = [outcome EXCEPT ![r] = o]
    /\ snapshot' = [snapshot EXCEPT ![r] = coll]

\* The clock readings the runs started so far have taken.
UsedTimes == UNION { { docs[r][i]["_updated_at"] : i \in 1..Len(docs[r]) } : r \in Runs }

\* The readings datetime.now() can give next.  The model never orders two
\* readings, it only compares them for equality, so a reading no run has
\* taken yet is named by the least unused number.
NowValues == { t \in Times : \A u \in 1..(t - 1) : u \in UsedTimes }

\* main(): docs = prepare_documents(items); upsert_to_mongo(docs, ...) up to
\* the MONGODB_URI check.  The runs are interchangeable, so r1 starts first.
\* Without MONGODB_URI the function returns before it reads docs.
Start(r) ==
    /\ pc[r] = "idle"
    /\ r = "r2" => pc["r1"] # "idle"
    /\ \/ /\ End(r, "ConfigurationError")
          /\ UNCHANGED docs
       \/ \E items \in Batches, now \in NowValues :
             /\ docs' = [docs EXCEPT ![r] = prepare_documents(items, now)]
             /\ pc' = [pc EXCEPT ![r] = "connect"]
             /\ UNCHANGED <<outcome, snapshot>>
    /\ seq' = IF r = "r2" THEN pc["r1"] = "done" ELSE seq
    /\ UNCHANGED <<coll, index, reachable, todo, cur, rep>>

\* A connection check that logs the failure and goes on (the return is missing).
ConnectNoReturn(r) ==
    /\ pc[r] = "connect"
    /\ pc' = [pc EXCEPT ![r] = "index"]
    /\ outcome' = [outcome EXCEPT ![r] = IF reachable THEN @ ELSE "ConnectivityError"]
    /\ UNCHANGED <<coll, index, reachable, docs, todo, cur, rep, seq, snapshot>>

\* MongoClient(...); client.server_info()
Connect(r) ==
    /\ pc[r] = "connect"
    /\ IF reachable
       THEN /\ pc' = [pc EXCEPT ![r] = "index"]
            /\ UNCHANGED <<outcome, snapshot>>
       ELSE End(r, "ConnectivityError")
    /\ UNCHANGED <<coll, index, reachable, docs, todo, cur, rep, seq>>

\* coll.create_index(unique_key, unique=True); any exception is logged and
\* the run goes on.
EnsureIndex(r) ==
    /\ pc[r] = "index"
    /\ index' = (index \/ (reachable /\ NoDuplicates(coll)))
    /\ pc' = [pc EXCEPT ![r] = "build"]
    /\ UNCHANGED <<coll, reachable, docs, todo, cur, rep, outcome, seq, snapshot>>

\* The loop that builds ops, and the empty check after it.
BuildOps(r) ==
    /\ pc[r] = "build"
    /\ IF \E i \in 1..Len(docs[r]) : unique_key \notin DOMAIN docs[r][i]
       THEN /\ End(r, "KeyError")
            /\ UNCHANGED todo
       ELSE IF docs[r] = <<>>
       THEN /\ End(r, "NoDocs")
            /\ UNCHANGED todo
       ELSE /\ pc' = [pc EXCEPT ![r] = "bulk"]
            /\ todo' = [todo EXCEPT ![r] = 1..Len(docs[r])]
            /\ UNCHANGED <<outcome, snapshot>>
    /\ UNCHANGED <<coll, index, reachable, docs, cur, rep, seq>>

\* The update of one matching document d by operation i of run r.
ApplyUpdate(r, i, d) ==
    LET new == SetDoc(d, docs[r][i])
    IN  /\ coll' = (coll \ {d}) \cup {new}
        /\ rep' = [rep EXCEPT ![r].matched = @ + 1,
                              ![r].modified = @ + (IF new = d THEN 0 ELSE 1)]
        /\ todo' = [todo EXCEPT ![r] = @ \ {i}]
        /\ cur' = [cur EXCEPT ![r] = 0]

\* bulk_write(ops, ordered=False): the server takes the operations in any
\* order.  An operation whose filter matches updates the document at once.
UpdateOp(r) ==
    /\ pc[r] = "bulk" /\ cur[r] = 0 /\ reachable
    /\ \E i \in todo[r] :
          \E d \in coll :
             /\ Matches(d, docs[r][i])
             /\ ApplyUpdate(r, i, d)
    /\ UNCHANGED <<index, reachable, pc, docs, outcome, seq, snapshot>>

\* An operation whose filter matches nothing goes on to insert (upsert=True).
LookupMiss(r) ==
    /\ pc[r] = "bulk" /\ cur[r] = 0 /\ reachable
    /\ \E i \in todo[r] :
          /\ ~ \E d \in coll : Matches(d, docs[r][i])
          /\ cur' = [cur EXCEPT ![r] = i]
    /\ UNCHANGED <<coll, index, reachable, pc, docs, todo, rep, outcome, seq, snapshot>>

\* The insert of the upsert.  With the unique index, a document that another
\* upsert inserted meanwhile makes the insert fail with a duplicate key: the
\* server retries the operation as an update, or reports a write error.
InsertOp(r) ==
    /\ pc[r] = "bulk" /\ cur[r] # 0
    /\ LET i == cur[r]
           doc == docs[r][i]
       IN  IF index /\ \E d \in coll : Matches(d, doc)
           THEN \/ \E d \in coll : Matches(d, doc) /\ ApplyUpdate(r, i, d)
                \/ /\ rep' = [rep EXCEPT ![r].errors = @ + 1]
                   /\ todo' = [todo EXCEPT ![r] = @ \ {i}]
                   /\ cur' = [cur EXCEPT ![r] = 0]
                   /\ UNCHANGED coll
           ELSE /\ coll' = coll \cup {InsertDoc(doc, NextId)}
                /\ rep' = [rep EXCEPT ![r].upserted = @ + 1]
                /\ todo' = [todo EXCEPT ![r] = @ \ {i}]
                /\ cur' = [cur EXCEPT ![r] = 0]
    /\ UNCHANGED <<index, reachable, pc, docs, outcome, seq, snapshot>>

\* bulk_write raises because the server is gone: "Error executing bulk_write".
BulkFail(r) ==
    /\ pc[r] = "bulk" /\ cur[r] = 0 /\ todo[r] # {} /\ ~reachable
    /\ End(r, "WriteError")
    /\ UNCHANGED <<coll, index, reachable, docs, todo, cur, rep, seq>>

\* bulk_write returns its result, or raises BulkWriteError with the write
\* errors; either is logged and the client is closed.
Finish(r) ==
    /\ pc[r] = "bulk" /\ cur[r] = 0 /\ todo[r] = {}
    /\ End(r, IF rep[r].errors > 0 THEN "BulkWriteError" ELSE "ok")
    /\ UNCHANGED <<coll, index, reachable, docs, todo, cur, rep, seq>>

\* The server becomes unreachable, or reachable again.
Network ==
    /\ reachable' = ~reachable
    /\ UNCHANGED <<coll, index, pc, docs, todo, cur, rep, outcome, seq, snapshot>>

Next ==
    \/ \E r \in Runs : Start(r) /\ UNCHANGED nonUpsertVars
    \/ \E r \in Runs : Connect(r) /\ UNCHANGED nonUpsertVars
    \/ \E r \in Runs : EnsureIndex(r) /\ UNCHANGED nonUpsertVars
    \/ \E r \in Runs : BuildOps(r) /\ UNCHANGED nonUpsertVars
    \/ \E r \in Runs : UpdateOp(r) /\ UNCHANGED nonUpsertVars
    \/ \E r \in Runs : LookupMiss(r) /\ UNCHANGED nonUpsertVars
    \/ \E r \in Runs : InsertOp(r) /\ UNCHANGED nonUpsertVars
    \/ \E r \in Runs : BulkFail(r) /\ UNCHANGED nonUpsertVars
    \/ \E r \in Runs : Finish(r) /\ UNCHANGED nonUpsertVars
    \/ Network /\ UNCHANGED nonUpsertVars

Spec == Init /\ [][Next]_allVars

\* ------------------------------------------------------------------ claims
\* Run r does not overlap the other run: r1 while r2 has not started, r2 when
\* it started after r1 had ended.
Sequential(r) == IF r = "r1" THEN pc["r2"] = "idle" ELSE seq

\* Run r worked through its whole bulk write with no other run in progress.
Alone(r) == IF r = "r1" THEN pc["r2"] = "idle" \/ seq ELSE seq

\* The fields a stored document got from the batch.
Stored(d) == Without(d, {"_id", "_created_at"})

\* The operation run r finishes in this step.
Executed(r) == todo[r] \ todo'[r]

\* C1: in a sequence of runs, a write of an identity value the collection does
\* not hold yet stores a document whose _created_at and _updated_at are both
\* the writing run's timestamp; a write of an identity value it holds leaves
\* that document's _created_at as it was and sets its _updated_at to the
\* writing run's timestamp; no step changes the _created_at of any document.
C1_CreateVsUpdate ==
    [][\A r \in Runs : \A i \in Executed(r) :
          Sequential(r) =>
             LET doc == docs[r][i]
             IN  /\ \A d \in coll : \E d2 \in coll' :
                       d2["_id"] = d["_id"] /\ d2["_created_at"] = d["_created_at"]
                 /\ IF \E d \in coll : Matches(d, doc)
                    THEN \E d \in coll : \E d2 \in coll' :
                            /\ Matches(d, doc)
                            /\ d2["_id"] = d["_id"]
                            /\ d2["_created_at"] = d["_created_at"]
                            /\ d2["_updated_at"] = doc["_updated_at"]
                    ELSE \E d2 \in coll' \ coll :
                            /\ Matches(d2, doc)
                            /\ d2["_created_at"] = doc["_updated_at"]
                            /\ d2["_updated_at"] = doc["_updated_at"]
      ]_vars

\* C1 witness: after two runs in sequence a document carries the first run's
\* timestamp as _created_at and the second run's as _updated_at.
C1_Witness ==
    /\ seq /\ pc["r2"] = "done" /\ outcome["r1"] = "ok" /\ outcome["r2"] = "ok"
    /\ \E d \in coll : \E i \in 1..Len(docs["r1"]) : \E j \in 1..Len(docs["r2"]) :
          /\ d["_created_at"] = docs["r1"][i]["_updated_at"]
          /\ d["_updated_at"] = docs["r2"][j]["_updated_at"]
          /\ d["_created_at"] # d["_updated_at"]

\* C2: the collection never holds two documents with the same identity value.
C2_AtMostOneWinner ==
    \A d1 \in coll, d2 \in coll : d1[unique_key] = d2[unique_key] => d1 = d2

\* C3: when two overlapping runs each upsert one document with the same
\* identity value, every stored document with that value has, apart from the
\* creation timestamp, exactly the fields of one of the two documents.
C3_NoMerge ==
    ( /\ pc["r1"] = "done" /\ pc["r2"] = "done" /\ ~seq
      /\ outcome["r1"] \in {"ok", "BulkWriteError"}
      /\ outcome["r2"] \in {"ok", "BulkWriteError"}
      /\ Len(docs["r1"]) = 1 /\ Len(docs["r2"]) = 1
      /\ docs["r1"][1][unique_key] = docs["r2"][1][unique_key] )
    => \A d \in coll : Stored(d) \in {docs["r1"][1], docs["r2"][1]}

\* C4: an update of a stored document leaves it with exactly the fields of the
\* new document plus the creation timestamp it had.
C4_UpdateOverwritesAll ==
    [][\A r \in Runs : \A i \in Executed(r) :
          rep'[r].matched > rep[r].matched =>
             \E d \in coll : \E d2 \in coll' :
                /\ Matches(d, docs[r][i])
                /\ d2["_id"] = d["_id"]
                /\ d2["_created_at"] = d["_created_at"]
                /\ Stored(d2) = docs[r][i]
      ]_vars

HasKey(doc) == unique_key \in DOMAIN doc

\* C5: a run that reached the collection with a batch of valid documents and
\* one document without the identity field ends with every valid document
\* written and one failure reported.
C5_PartialFailureIsolation ==
    \A r \in Runs :
       ( /\ pc[r] = "done"
         /\ outcome[r] \notin {"ConfigurationError", "ConnectivityError", "WriteError"}
         /\ Cardinality({ i \in 1..Len(docs[r]) : ~HasKey(docs[r][i]) }) = 1
         /\ \E i \in 1..Len(docs[r]) : HasKey(docs[r][i]) )
       => /\ \A i \in 1..Len(docs[r]) :
                HasKey(docs[r][i]) => \E d \in coll : Matches(d, docs[r][i])
          /\ rep[r].errors = 1

\* C6: when r2 runs after r1 with the identical batch, the collection after r2
\* is the collection after r1 and r2 reports nothing created and nothing
\* modified.
C6_Idempotence ==
    ( /\ seq /\ pc["r2"] = "done"
      /\ outcome["r1"] = "ok" /\ outcome["r2"] = "ok"
      /\ docs["r1"] = docs["r2"] )
    => /\ coll = snapshot["r1"]
       /\ rep["r2"].modified = 0
       /\ rep["r2"].upserted = 0

\* C7: a run that finds the server unreachable at its connection check ends
\* there with the ConnectivityError outcome, with the collection and its index
\* untouched and no operation of a bulk write prepared or executed; a run with
\* that outcome takes no further step.
C7_ConnectivityFailFast ==
    [][\A r \in Runs :
          /\ (pc[r] = "connect" /\ ~reachable /\ pc'[r] # pc[r]) =>
                /\ pc'[r] = "done"
                /\ outcome'[r] = "ConnectivityError"
                /\ coll' = coll /\ index' = index
                /\ todo'[r] = {} /\ rep'[r] = ZeroRep
          /\ outcome[r] = "ConnectivityError" =>
                /\ pc[r] = "done" /\ pc'[r] = "done"
                /\ todo'[r] = todo[r] /\ rep'[r] = rep[r]
      ]_vars

\* C7 witness: a run ended with ConnectivityError while the collection, filled
\* by the other run, is as that run left it.
C7_Witness ==
    /\ pc["r2"] = "done" /\ outcome["r2"] = "ConnectivityError"
    /\ outcome["r1"] = "ok" /\ coll # {} /\ coll = snapshot["r1"]

\* C8: whenever a run is in its bulk write, the unique index exists.
C8_ConstraintBeforeWrite ==
    \A r \in Runs : pc[r] = "bulk" => index

\* The last document of a batch with the identity value of document i.
LastOf(batch, i) ==
    \A j \in 1..Len(batch) : batch[j][unique_key] = batch[i][unique_key] => j <= i

\* C9: after a run that worked alone, the document stored under an identity
\* value carries the field values of the last document of the batch with that
\* value.
C9_LastOneWins ==
    \A r \in Runs :
       (pc[r] = "done" /\ outcome[r] = "ok" /\ Alone(r)) =>
          \A i \in 1..Len(docs[r]) :
             LastOf(docs[r], i) =>
                \E d \in snapshot[r] :
                   /\ Matches(d, docs[r][i])
                   /\ \A f \in DOMAIN docs[r][i] : d[f] = docs[r][i][f]

\* C10: no step of a run with an empty batch changes the documents or the
\* index of the collection, and such a run ends without a write error and
\* with zero counts (an unreachable server is C7's case).
C10_EmptyBatchNoOp ==
    [][\A r \in Runs :
          (pc[r] \in {"connect", "index", "build", "bulk"} /\ docs[r] = <<>> /\ pc'[r] # pc[r]) =>
             /\ coll' = coll
             /\ index' = index
             /\ pc'[r] = "done" => (outcome'[r] \in {"NoDocs", "ConnectivityError"} /\ rep'[r] = ZeroRep)
      ]_vars

\* ================================================== get_most_recent_event
\* src/events.py and src/race_pace.py hold the same function, line for line.
MaxEvents == 2         \* longest schedule (and race calendar) a provider answers
MaxDate == 3           \* instants are 1..MaxDate

Dates == 1..MaxDate

\* pd.to_datetime(..., errors="coerce") turns a date it cannot read into NaT.
NaT == 0

\* The year datetime.now().year gives.
Years == {2026}

\* One row of an event schedule: its EventDate and whether EventFormat is "testing".
Events == [date : Dates \cup {NaT}, testing : BOOLEAN]

\* What fastf1.get_event_schedule(year) can answer: a schedule, or an exception.
FetchError == [ok |-> FALSE, events |-> <<>>]
Responses == { [ok |-> TRUE, events |-> e] : e \in SeqsUpTo(Events, MaxEvents) } \cup {FetchError}

\* for year in [current_year, current_year - 1]
SearchYears(cy) == <<cy, cy - 1>>

\* schedule[schedule["EventFormat"] != "testing"]: the index labels that stay.
NotTesting(sched) == { i \in 1..Len(sched) : ~sched[i].testing }

\* schedule[schedule["EventDate"] <= today]: a comparison with NaT is False.
PastEvents(sched, today) ==
    { i \in NotTesting(sched) : sched[i].date # NaT /\ sched[i].date <= today }

\* idxmin in place of idxmax.
RECURSIVE ScanMin(_, _, _, _)
ScanMin(sched, S, i, best) ==
    IF i > Len(sched) THEN best
    ELSE IF i \in S /\ (best = 0 \/ sched[i].date < sched[best].date)
         THEN ScanMin(sched, S, i + 1, i)
         ELSE ScanMin(sched, S, i + 1, best)

\* The scan behind idxmax: the label of the first row that holds the maximum.
RECURSIVE ScanMax(_, _, _, _)
ScanMax(sched, S, i, best) ==
    IF i > Len(sched) THEN best
    ELSE IF i \in S /\ (best = 0 \/ sched[i].date > sched[best].date)
         THEN ScanMax(sched, S, i + 1, i)
         ELSE ScanMax(sched, S, i + 1, best)

IdxMin(sched, S) == ScanMin(sched, S, 1, 0)

\* past_events["EventDate"].idxmax()
IdxMax(sched, S) == ScanMax(sched, S, 1, 0)

\* current_year = datetime.now().year; today = pd.Timestamp.now()
ResolverEntry ==
    /\ ryear \in Years /\ rnow \in Dates
    /\ rseen = <<>> /\ rpc = "loop" /\ rres = NoResult

\* A call of get_most_recent_event begins; nothing is being written.
ResolverInit == UpsertInit /\ ResolverEntry /\ RankIdle /\ ScriptIdle

\* An iteration whose fetch error leaves the function instead of continuing.
TryYearAbort ==
    /\ rpc = "loop" /\ Len(rseen) < Len(SearchYears(ryear))
    /\ \E resp \in Responses :
          LET past == PastEvents(resp.events, rnow)
          IN  /\ rseen' = Append(rseen, resp)
              /\ IF ~resp.ok
                 THEN rpc' = "raised" /\ UNCHANGED rres
                 ELSE IF past # {}
                 THEN /\ rres' = [idx |-> IdxMax(resp.events, past),
                                  year |-> SearchYears(ryear)[Len(rseen) + 1]]
                      /\ rpc' = "returned"
                 ELSE UNCHANGED <<rpc, rres>>
    /\ UNCHANGED <<ryear, rnow>>

\* One iteration of the loop over the years: the schedule is fetched and
\* filtered; a past event ends the call, an exception or no past event goes on
\* to the next year.
TryYear ==
    /\ rpc = "loop" /\ Len(rseen) < Len(SearchYears(ryear))
    /\ \E resp \in Responses :
          LET past == PastEvents(resp.events, rnow)
          IN  /\ rseen' = Append(rseen, resp)
              /\ IF resp.ok /\ past # {}
                 THEN /\ rres' = [idx |-> IdxMax(resp.events, past),
                                  year |-> SearchYears(ryear)[Len(rseen) + 1]]
                      /\ rpc' = "returned"
                 ELSE UNCHANGED <<rpc, rres>>
    /\ UNCHANGED <<ryear, rnow>>

\* raise ValueError("No past events found in current or previous year")
RaiseNoPast ==
    /\ rpc = "loop" /\ Len(rseen) = Len(SearchYears(ryear))
    /\ rpc' = "raised"
    /\ UNCHANGED <<ryear, rnow, rseen, rres>>

ResolverNext ==
    \/ TryYear /\ UNCHANGED <<vars, rankVars, scriptVars>>
    \/ RaiseNoPast /\ UNCHANGED <<vars, rankVars, scriptVars>>

SpecResolver == ResolverInit /\ [][ResolverNext]_allVars

\* The qualifying events of an answer: none when the fetch failed, else the
\* events that are not testing and started at or before now.
Qualifying(resp) ==
    IF resp.ok
    THEN { i \in 1..Len(resp.events) :
             /\ ~resp.events[i].testing
             /\ resp.events[i].date \in Dates
             /\ resp.events[i].date <= rnow }
    ELSE {}

\* The place of the returned year in the search order.
ResultPlace == IF rres.year = ryear THEN 1 ELSE 2

\* C11: the call returns (e, s) with s the first of current_year and
\* current_year - 1 that has a qualifying event, and e an event of s whose
\* start is the maximum over the qualifying events of s.
C11_MostRecentResult ==
    rpc = "returned" =>
       /\ rres.year \in {ryear, ryear - 1}
       /\ Len(rseen) = ResultPlace
       /\ \A k \in 1..(ResultPlace - 1) : Qualifying(rseen[k]) = {}
       /\ rres.idx \in Qualifying(rseen[ResultPlace])
       /\ \A j \in Qualifying(rseen[ResultPlace]) :
             rseen[ResultPlace].events[j].date <= rseen[ResultPlace].events[rres.idx].date

\* C11 witness: the current season has events but none has started, the
\* season before has two past events, and the later of them is returned.
C11_Witness ==
    /\ rpc = "returned" /\ rres.year = ryear - 1
    /\ rseen[1].ok /\ rseen[1].events # <<>>
    /\ \E j \in Qualifying(rseen[2]) :
          rseen[2].events[j].date < rseen[2].events[rres.idx].date

\* C12: the call raises exactly when neither year yields a qualifying event,
\* a year whose fetch failed yielding none; after a failed fetch of the
\* current year the year before is still tried.
C12_FailureRule ==
    /\ rpc = "raised" =>
          /\ Len(rseen) = 2
          /\ \A k \in 1..2 : Qualifying(rseen[k]) = {}
    /\ rpc = "returned" => \E k \in 1..Len(rseen) : Qualifying(rseen[k]) # {}
    /\ (rpc \in {"returned", "raised"} /\ ~rseen[1].ok) => Len(rseen) = 2
    /\ rpc = "loop" => \A k \in 1..Len(rseen) : Qualifying(rseen[k]) = {}

\* C12 witness: the fetch of the current year failed and the call returned an
\* event of the year before.
C12_Witness ==
    /\ rpc = "returned" /\ ~rseen[1].ok /\ rres.year = ryear - 1

\* ================================================== race_pace_position
MaxMeas == 3           \* most measurements in all_race_pace

\* The season argument of process_race_pace_data and the rounds of the events.
Seasons == {2026}
Rounds == {1, 2}

\* avg_laptime values, in seconds.
LapTimes == {10, 11}

\* An avg_laptime that is NaN, which replace({np.nan: None}) turns into None.
NullLap == 0

\* The rank of a null value: NaN.
NaNRank == 0

\* One record of all_race_pace, cut to the fields the ranking reads.
Measurements == [season : Seasons, round : Rounds, avg_laptime : LapTimes \cup {NullLap}]

\* groupby(["season", "round"]): the rows in the group of row i.
GroupOf(meas, i) ==
    { j \in 1..Len(meas) : meas[j].season = meas[i].season /\ meas[j].round = meas[i].round }

\* The rows of a group whose value is not null: rank leaves the others out.
Valid(meas, G) == { j \in G : meas[j].avg_laptime # NullLap }

\* The values of the rows S in ascending order, one entry per row.
RECURSIVE SortedValues(_, _)
SortedValues(meas, S) ==
    IF S = {} THEN <<>>
    ELSE LET j == CHOOSE x \in S : \A y \in S : meas[x].avg_laptime <= meas[y].avg_laptime
         IN  <<meas[j].avg_laptime>> \o SortedValues(meas, S \ {j})

\* method="max": a value's rank is its last place in the ascending order.
RankMax(sorted, v) ==
    CHOOSE k \in 1..Len(sorted) : sorted[k] = v /\ \A l \in (k + 1)..Len(sorted) : sorted[l] # v

\* method="min": a value's rank is its first place in the ascending order.
RankMin(sorted, v) ==
    CHOOSE k \in 1..Len(sorted) : sorted[k] = v /\ \A l \in 1..(k - 1) : sorted[l] # v

\* groupby(...)["avg_laptime"].rank(method="min", ascending=True): a float
\* column, NaN where the value is null.
GroupRank(meas) ==
    [ i \in 1..Len(meas) |->
        IF meas[i].avg_laptime = NullLap THEN NaNRank
        ELSE RankMin(SortedValues(meas, Valid(meas, GroupOf(meas, i))), meas[i].avg_laptime) ]

\* The measurements the loop over events and drivers has collected.
RankEntry ==
    /\ rkmeas \in SeqsUpTo(Measurements, MaxMeas)
    /\ rkpos = <<>> /\ rkpc = "ready"

\* The ranking step is about to run; nothing else is under way.
RankInit == UpsertInit /\ ResolverIdle /\ RankEntry /\ ScriptIdle

\* The ranking step: a frame without rows has no season column and groupby
\* raises KeyError; astype(int) raises when a rank is NaN; else the column is set.
ComputePositions ==
    /\ rkpc = "ready"
    /\ LET ranks == GroupRank(rkmeas)
       IN  IF rkmeas = <<>> \/ \E i \in 1..Len(rkmeas) : ranks[i] = NaNRank
           THEN rkpc' = "raised" /\ UNCHANGED rkpos
           ELSE rkpc' = "done" /\ rkpos' = ranks
    /\ UNCHANGED rkmeas

RankNext == ComputePositions /\ UNCHANGED <<vars, resolverVars, scriptVars>>

SpecRank == RankInit /\ [][RankNext]_allVars

\* The measurements of row i's group with a strictly smaller avg_laptime.
Faster(i) ==
    { j \in 1..Len(rkmeas) :
        /\ rkmeas[j].season = rkmeas[i].season /\ rkmeas[j].round = rkmeas[i].round
        /\ rkmeas[j].avg_laptime # NullLap
        /\ rkmeas[j].avg_laptime < rkmeas[i].avg_laptime }

NoNulls == \A i \in 1..Len(rkmeas) : rkmeas[i].avg_laptime # NullLap

\* C13: when every avg_laptime is non-null, each measurement's
\* race_pace_position is 1 plus the number of measurements of its
\* (season, round) group with a strictly smaller avg_laptime.
C13_RankingRule ==
    (rkpc \in {"done", "raised"} /\ NoNulls /\ rkmeas # <<>>) =>
       /\ rkpc = "done"
       /\ Len(rkpos) = Len(rkmeas)
       /\ \A i \in 1..Len(rkmeas) : rkpos[i] = 1 + Cardinality(Faster(i))

\* C13 witness: a group with two tied values and a slower one is ranked 1, 1, 3.
C13_Witness ==
    /\ rkpc = "done" /\ Len(rkmeas) = 3
    /\ \A i \in 1..3 : rkmeas[i].round = 1
    /\ rkmeas[1].avg_laptime = 10 /\ rkmeas[2].avg_laptime = 10 /\ rkmeas[3].avg_laptime = 11
    /\ rkpos = <<1, 1, 3>>

\* C14: when a measurement has a null avg_laptime the ranking step completes,
\* that measurement gets no rank, and the others of its group get the ranks
\* they would get without it.
C14_NullExcluded ==
    (rkpc \in {"done", "raised"} /\ ~NoNulls) =>
       /\ rkpc = "done"
       /\ \A i \in 1..Len(rkmeas) :
             IF rkmeas[i].avg_laptime = NullLap
             THEN rkpos[i] = NaNRank
             ELSE rkpos[i] = 1 + Cardinality(Faster(i))

\* ================================================== the scripts' main()
Scripts == {"drivers", "upcoming_gp"}

\* The provider calls of main(): fetch_drivers, fetch_driver_standings and
\* fetch_team_colors in drivers, fetch_races in upcoming_gp.
Fetches(sc) == IF sc = "drivers" THEN 3 ELSE 1

\* fetch_drivers, fetch_driver_standings and fetch_races log an exception and
\* raise it again; fetch_team_colors falls back to TEAM_COLORS_FALLBACK.
CanRaise(sc, k) == sc = "upcoming_gp" \/ k <= 2

\* main() of upcoming_gp asks for the schedule of this season.
RaceSeason == 2025

\* A race schedule as Ergast answers it: at least one race, the rounds
\* numbered from 1 in the order of the rows, an fp1Date or NaT each.
Races == [fp1Date : Dates \cup {NaT}]
Schedules == SeqsUpTo(Races, MaxEvents) \ { <<>> }

\* The record process_races builds when no race is upcoming.  It has no "id".
Placeholder == [season |-> 2026, round |-> 1]

\* races[races["fp1Date"] > now]
Upcoming(races, now) ==
    { i \in 1..Len(races) : races[i].fp1Date # NaT /\ races[i].fp1Date > now }

\* sort_values("fp1Date").iloc[0]: a row with the least fp1Date; the sort is
\* not stable, so either of two rows with the same date can come first.
FirstUpcoming(races, now) ==
    { i \in Upcoming(races, now) :
        \A j \in Upcoming(races, now) : races[i].fp1Date <= races[j].fp1Date }

\* f"{season}-{round}"
RaceId(season, round) == <<season, round>>

\* The record of the next race, cut to its id, season and round.
RaceRecord(i) == [id |-> RaceId(RaceSeason, i), season |-> RaceSeason, round |-> i]

\* process_races(races) when the clock reads now: the lists it can return.
process_races(races, now) ==
    IF Upcoming(races, now) = {}
    THEN { <<Placeholder>> }
    ELSE { <<RaceRecord(i)>> : i \in FirstUpcoming(races, now) }

\* process_drivers: the records depend on what the providers answered; each
\* is a row of a frame that has the identity column.
DriverBatches == SeqsUpTo(Items \ {NoKeyItem}, MaxBatch)

\* main() is entered.
ScriptEntry ==
    /\ script \in Scripts /\ suri \in BOOLEAN /\ spc = "fetch"
    /\ scalls = 0 /\ sraces = <<>> /\ srecs = <<>>

\* A script starts; the collection is empty.
ScriptInit == UpsertInit /\ ResolverIdle /\ RankIdle /\ ScriptEntry

\* The next fetch_* call of main(): the provider is called; the call answers,
\* or it raises and main() ends with the exception.
Fetch ==
    /\ spc = "fetch"
    /\ scalls' = scalls + 1
    /\ \/ /\ CanRaise(script, scalls + 1)
          /\ spc' = "raised"
          /\ UNCHANGED sraces
       \/ /\ spc' = IF scalls + 1 = Fetches(script) THEN "process" ELSE "fetch"
          /\ IF script = "upcoming_gp"
             THEN sraces' \in Schedules
             ELSE UNCHANGED sraces
    /\ UNCHANGED <<script, suri, srecs>>

\* process_drivers(...) or process_races(races_raw)
Process ==
    /\ spc = "process"
    /\ IF script = "upcoming_gp"
       THEN \E now \in Dates : srecs' \in process_races(sraces, now)
       ELSE srecs' \in DriverBatches
    /\ spc' = "upsert"
    /\ UNCHANGED <<script, suri, scalls, sraces>>

\* docs = prepare_documents(records); upsert_to_mongo(docs, ...) up to the
\* MONGODB_URI check: without the address the function logs and returns.
CallUpsert ==
    /\ spc = "upsert"
    /\ spc' = "called"
    /\ IF suri
       THEN \E now \in NowValues :
               /\ docs' = [docs EXCEPT !["r1"] = prepare_documents(srecs, now)]
               /\ pc' = [pc EXCEPT !["r1"] = "connect"]
               /\ UNCHANGED <<outcome, snapshot>>
       ELSE /\ End("r1", "ConfigurationError")
            /\ UNCHANGED docs
    /\ UNCHANGED <<coll, index, reachable, todo, cur, rep, seq>>
    /\ UNCHANGED <<script, suri, scalls, sraces, srecs>>

ScriptNext ==
    \/ Fetch /\ UNCHANGED <<vars, resolverVars, rankVars>>
    \/ Process /\ UNCHANGED <<vars, resolverVars, rankVars>>
    \/ CallUpsert /\ UNCHANGED <<resolverVars, rankVars>>
    \/ Connect("r1") /\ UNCHANGED nonUpsertVars
    \/ EnsureIndex("r1") /\ UNCHANGED nonUpsertVars
    \/ BuildOps("r1") /\ UNCHANGED nonUpsertVars
    \/ UpdateOp("r1") /\ UNCHANGED nonUpsertVars
    \/ LookupMiss("r1") /\ UNCHANGED nonUpsertVars
    \/ InsertOp("r1") /\ UNCHANGED nonUpsertVars
    \/ BulkFail("r1") /\ UNCHANGED nonUpsertVars
    \/ Finish("r1") /\ UNCHANGED nonUpsertVars
    \/ Network /\ UNCHANGED nonUpsertVars

SpecScript == ScriptInit /\ [][ScriptNext]_allVars

\* C15: in a run of a script without MONGODB_URI no provider is called, and
\* the run ends with the configuration error.
C15_ConfigCheckFirst ==
    (script \in Scripts /\ ~suri) =>
       /\ scalls = 0
       /\ spc \in {"called", "raised"} =>
             (spc = "called" /\ outcome["r1"] = "ConfigurationError")

\* C16: the one record process_races returns has an "id" that is neither
\* null nor empty, on the placeholder path too, and upsert_to_mongo builds
\* its write operation from it.
C16_IdentityPresent ==
    (script = "upcoming_gp" /\ spc \in {"upsert", "called"}) =>
       /\ Len(srecs) = 1
       /\ unique_key \in DOMAIN srecs[1]
       /\ srecs[1][unique_key] # <<>>
       /\ outcome["r1"] # "KeyError"

====
